---- MODULE Spec2Model ----
(***************************************************************************)
(* The Taboo game session of src/app/app.py: the process-wide GAME         *)
(* dictionary, the per-browser Flask session, and one action per route     *)
(* handler (index, join, start_game, game, action, next_turn, reset).      *)
(* In Spec each handler runs to completion in one step.  What a handler    *)
(* hands back (the error it stores, the flags it gives the template) is an *)
(* operator over the state it ran in.  In RaceSpec two server threads run  *)
(* the handlers that write GAME a few lines at a time, side by side.       *)
(***************************************************************************)
EXTENDS Integers, Sequences, FiniteSets, TLC

\* ------------------------------------------------------------------ bounds
\* Number of uuid4 ids ever issued, i.e. of successful /join requests.
MaxIds == 3
\* Largest number of well-formed entries in cards.json.
MaxCards == 2
\* Largest value of GAME["passes"] explored.
MaxPasses == 1

\* ------------------------------------------------------- program constants
DEFAULT_TIME_LIMIT == 60

\* Browsers (Flask sessions) that send requests.
Callers == {"c1", "c2"}
Teams == {"red", "blue"}
\* session.get("player_id") of a session without that key.
None == 0

\* ------------------------------------------------------------ request data
\* Form field "name" and what .strip() makes of it.
NameInputs == {"ann", " "}
StripName(n) == IF n = " " THEN "" ELSE n

\* Form field "team" and what .strip().lower() makes of it.
TeamInputs == {"red", " Blue", "green"}
NormTeam(t) == CASE t = " Blue" -> "blue"
                 [] OTHER -> t

\* Form field "time_limit": absent, a decimal string, or not a number.
TimeLimitInputs == {"absent", "30", "abc"}
TimeLimitArg(v) == IF v = "absent" THEN "60" ELSE v
IsIntLiteral(s) == s \in {"30", "60"}
IntOf(s) == CASE s = "30" -> 30
              [] s = "60" -> DEFAULT_TIME_LIMIT

\* Form field "action".
ActionInputs == {"correct", "taboo", "pass", "skip"}

\* cards.json.  A word or a forbidden word is a number; 0 stands for a
\* string that is empty after str(...).strip().  The file holds n
\* well-formed entries with distinct words between two malformed ones.
RawEntry(w) == [word |-> w, taboo |-> <<0, w>>]
RawCatalog(n) ==
    <<[word |-> 0, taboo |-> <<1>>]>>
    \o [i \in 1..n |-> RawEntry(i)]
    \o <<[word |-> 1, taboo |-> <<0>>]>>
Catalogs == {RawCatalog(n) : n \in 0..MaxCards}

\* load_cards: strip each entry, keep those with a word and a forbidden word.
StripTaboo(e) == [word |-> e.word,
                  taboo |-> SelectSeq(e.taboo, LAMBDA t : t # 0)]
KeepEntry(e) == e.word # 0 /\ e.taboo # <<>>
load_cards(raw) ==
    SelectSeq([i \in 1..Len(raw) |-> StripTaboo(raw[i])], KeepEntry)

\* What load_cards returns for each cards.json, tabulated.
loaded == [raw \in Catalogs |-> load_cards(raw)]

\* Mutant of Shuffles: every position is drawn independently of the others.
Samples(s) ==
    {[i \in 1..Len(s) |-> s[f[i]]] : f \in [1..Len(s) -> 1..Len(s)]}

\* random.shuffle: every rearrangement of the list.
Shuffles(s) ==
    {[i \in 1..Len(s) |-> s[p[i]]] : p \in Permutations(1..Len(s))}

\* start_game, line 102: the words of the validated cards, in file order.
words_of(cs) == [i \in 1..Len(cs) |-> cs[i].word]

\* The decks start_game can build from each cards.json (lines 102-103),
\* tabulated.
shuffled == [raw \in Catalogs |-> Shuffles(words_of(loaded[raw]))]

\* ------------------------------------------------------------------- state
VARIABLES
    players,      \* GAME["players"]: sequence of [id, name, team]
    deck,         \* GAME["deck"]: sequence of words
    cards,        \* GAME["cards"]: catalog snapshot
    scores,       \* GAME["scores"]
    passes,       \* GAME["passes"]
    turn_index,   \* GAME["turn_index"]
    time_limit,   \* GAME["time_limit"]
    started,      \* GAME["started"]
    session,      \* session["player_id"] of every caller
    next_id,      \* number of ids uuid4 has issued
    corrects,     \* history: accepted "correct" actions per team since the
                  \* scores were last zeroed (by /start or /reset)
    thr           \* requests in the middle of their handler, per server
                  \* thread: the line reached and the handler's locals

game_vars == <<players, deck, cards, scores, passes, turn_index, time_limit, started>>
vars == <<players, deck, cards, scores, passes, turn_index, time_limit, started,
          session, next_id, corrects, thr>>

\* Server threads that run handlers side by side, and a thread between two
\* requests.
Threads == {"t1", "t2"}
Idle == [pc |-> "idle"]

ZeroScores == [t \in Teams |-> 0]

Init ==
    /\ players = <<>>
    /\ deck = <<>>
    /\ cards = <<>>
    /\ scores = ZeroScores
    /\ passes = 0
    /\ turn_index = 0
    /\ time_limit = DEFAULT_TIME_LIMIT
    /\ started = FALSE
    /\ session = [c \in Callers |-> None]
    /\ next_id = 0
    /\ corrects = ZeroScores
    /\ thr = [t \in Threads |-> Idle]

\* --------------------------------------------------------------- helpers
\* {player.get("team") for player in players}
TeamsOf(ps) == {ps[i].team : i \in 1..Len(ps)}

\* index: can_start
can_start == Len(players) >= 2 /\ Teams \subseteq TeamsOf(players)

\* get_current_user: the first player whose id is the session's, or None.
HasUser(c) ==
    /\ session[c] # None
    /\ \E i \in 1..Len(players) : players[i].id = session[c]
get_current_user(c) ==
    players[CHOOSE i \in 1..Len(players) :
                /\ players[i].id = session[c]
                /\ \A j \in 1..(i - 1) : players[j].id # session[c]]

\* players[GAME["turn_index"] % len(players)], 1-based.
current_player == players[(turn_index % Len(players)) + 1]

\* Mutant of other_team: the clue-giver's own team is taken for the opposite one.
other_team_same(t) == t

\* game, line 125
other_team(t) == IF t = "red" THEN "blue" ELSE "red"
opposite_team == other_team(current_player.team)

\* game: whether the handler renders game.html, and the can_view it passes.
game_renders == started /\ players # <<>> /\ deck # <<>>
can_view(c) ==
    IF HasUser(c)
    THEN \/ get_current_user(c).id = current_player.id
         \/ get_current_user(c).team = opposite_team
    ELSE FALSE

\* game, line 135: the cards of the snapshot a word resolves to.
card_data(w) == {i \in 1..Len(cards) : cards[i].word = w}

\* ---------------------------------------------------------------- actions
\* index and game only read GAME.
index(c) == UNCHANGED vars

game(c) == UNCHANGED vars

\* Mutant of join_open: the started check of line 75 is missing.
join_open_always == TRUE

\* join, line 75: registration is open while no round is started.
join_open == ~started

\* join, line 80: a name and one of the two teams.
valid_player(name, team) == name # "" /\ team \in Teams

\* join: the session["error"] it stores, "" when it registers the player.
join_error(name_in, team_in) ==
    IF ~join_open THEN "Round already started. End round to join."
    ELSE IF ~valid_player(StripName(name_in), NormTeam(team_in))
    THEN "Enter a player name and choose a team."
    ELSE ""

\* Mutant of uuid4: the id is the player's position in the roster, so ids
\* are handed out again after a reset.
uuid4_position == Len(players) + 1

\* join, line 83: uuid4().hex, an id that was never handed out before.
uuid4 == next_id + 1

join(c, name_in, team_in) ==
    LET player == [id |-> uuid4, name |-> StripName(name_in),
                   team |-> NormTeam(team_in)]
    IN  IF join_error(name_in, team_in) # ""
        THEN UNCHANGED vars
        ELSE /\ next_id < MaxIds
             /\ players' = Append(players, player)
             /\ session' = [session EXCEPT ![c] = player.id]
             /\ next_id' = next_id + 1
             /\ UNCHANGED <<deck, cards, scores, passes, turn_index,
                            time_limit, started, corrects, thr>>

\* start_game: the session["error"] it stores, "" when it passes its checks.
start_error(raw) ==
    IF Len(players) < 2 THEN "Add at least two players to start."
    ELSE IF ~(Teams \subseteq TeamsOf(players))
    THEN "Add at least one player to each team."
    ELSE IF loaded[raw] = <<>> THEN "No cards available in cards.json."
    ELSE ""

start_game(time_in, raw) ==
    IF start_error(raw) # ""
    THEN UNCHANGED vars
    ELSE /\ cards' = loaded[raw]
         /\ scores' = ZeroScores
         /\ passes' = 0
         /\ turn_index' = 0
         /\ deck' \in shuffled[raw]
         /\ IF IsIntLiteral(TimeLimitArg(time_in))
            THEN /\ time_limit' = IntOf(TimeLimitArg(time_in))
                 /\ started' = TRUE
            ELSE \* int(...) raises ValueError at line 109: the request ends
                 \* with the assignments of lines 104-108 made
                 UNCHANGED <<time_limit, started>>
         /\ corrects' = ZeroScores
         /\ UNCHANGED <<players, session, next_id, thr>>

\* Mutant of is_current_player: any registered requester passes the check.
is_any_player(c) == HasUser(c)

\* action / next_turn: session.get("player_id") != current_player.get("id")
is_current_player(c) == session[c] = current_player.id

\* Mutant of score_correct: a correct guess is counted twice.
score_correct_twice(s) == s + 2

\* action, line 166
score_correct(s) == s + 1

\* Mutant of score_taboo: the max(0, ...) floor is missing.
score_taboo_unfloored(s) == s - 1

\* action, line 168
score_taboo(s) == IF s - 1 > 0 THEN s - 1 ELSE 0

\* Mutant of deck_pass: the popped word is not appended again.
deck_pass_drop(d) == Tail(d)

\* action, lines 164 and 171: deck.pop(0) then deck.append(current)
deck_pass(d) == Append(Tail(d), Head(d))

\* action, line 164 alone: deck.pop(0)
deck_pop(d) == Tail(d)

\* action: whether the request gets past the checks of lines 152-161.
action_accepted(c) ==
    players # <<>> /\ deck # <<>> /\ is_current_player(c)

action(c, action_type) ==
    IF ~action_accepted(c)
    THEN UNCHANGED vars
    ELSE LET team == current_player.team IN
         /\ CASE action_type = "correct" ->
                   /\ scores' = [scores EXCEPT ![team] = score_correct(@)]
                   /\ corrects' = [corrects EXCEPT ![team] = @ + 1]
                   /\ deck' = deck_pop(deck)
                   /\ UNCHANGED passes
              [] action_type = "taboo" ->
                   /\ scores' = [scores EXCEPT ![team] = score_taboo(@)]
                   /\ deck' = deck_pop(deck)
                   /\ UNCHANGED <<passes, corrects>>
              [] action_type = "pass" ->
                   /\ passes < MaxPasses
                   /\ passes' = passes + 1
                   /\ deck' = deck_pass(deck)
                   /\ UNCHANGED <<scores, corrects>>
              [] OTHER ->
                   /\ deck' = deck_pop(deck)
                   /\ UNCHANGED <<scores, passes, corrects>>
         /\ UNCHANGED <<players, cards, turn_index, time_limit, started,
                        session, next_id, thr>>

\* next_turn, line 187: (GAME["turn_index"] + 1) % len(players)
next_index(t, n) == (t + 1) % n

\* next_turn: whether the request gets past the checks of lines 181-186.
next_turn_accepted(c) == players # <<>> /\ is_current_player(c)

next_turn(c) ==
    IF ~next_turn_accepted(c)
    THEN UNCHANGED vars
    ELSE /\ turn_index' = next_index(turn_index, Len(players))
         /\ UNCHANGED <<players, deck, cards, scores, passes, time_limit,
                        started, session, next_id, corrects, thr>>

reset(c) ==
    /\ players' = <<>>
    /\ deck' = <<>>
    /\ cards' = <<>>
    /\ scores' = ZeroScores
    /\ passes' = 0
    /\ turn_index' = 0
    /\ time_limit' = DEFAULT_TIME_LIMIT
    /\ started' = FALSE
    /\ session' = [session EXCEPT ![c] = None]
    /\ corrects' = ZeroScores
    /\ UNCHANGED <<next_id, thr>>

Index == \E c \in Callers : index(c)
Join == \E c \in Callers, n \in NameInputs, t \in TeamInputs : join(c, n, t)
StartGame == \E tl \in TimeLimitInputs, raw \in Catalogs : start_game(tl, raw)
Game == \E c \in Callers : game(c)
Action == \E c \in Callers, a \in ActionInputs : action(c, a)
NextTurn == \E c \in Callers : next_turn(c)
Reset == \E c \in Callers : reset(c)

Next == Index \/ Join \/ StartGame \/ Game \/ Action \/ NextTurn \/ Reset

Spec == Init /\ [][Next]_vars

\* ------------------------------------------------------- threaded server
\* app.run serves every request in a thread of its own and no handler takes
\* a lock, so the handlers that write GAME interleave between their lines.
\* RaceSpec runs two requests side by side, one per thread, from a lobby or
\* from a round that has just started.
\* A local that holds a GAME list or dict holds the object itself: Here is
\* the object GAME holds now, Kept(v) one that GAME has let go of since.
Here(v) == [al |-> TRUE, val |-> v]
Kept(v) == [al |-> FALSE, val |-> v]
Obj(ref, g) == IF ref.al THEN g ELSE ref.val

\* The locals of another thread once GAME[f], which held g, is given a new
\* object.
Detach(rec, f, g) ==
    IF f \in DOMAIN rec /\ rec[f].al THEN [rec EXCEPT ![f] = Kept(g)] ELSE rec

\* thr after thread t moves on to the locals rec while the GAME entries in
\* fs are given new objects.
Moved(t, rec, fs) ==
    [u \in Threads |->
        IF u = t THEN rec
        ELSE LET a == IF "players" \in fs
                      THEN Detach(thr[u], "players", players) ELSE thr[u]
                 b == IF "deck" \in fs THEN Detach(a, "deck", deck) ELSE a
             IN  IF "scores" \in fs THEN Detach(b, "scores", scores) ELSE b]

\* A thread whose request has been answered.
Done == [pc |-> "done"]

At(t, line) == thr[t].pc = line

\* The request ends at its first check: nothing but the thread changes.
Refused(t) ==
    /\ thr' = Moved(t, Done, {})
    /\ UNCHANGED <<players, deck, cards, scores, passes, turn_index,
                   time_limit, started, session, next_id, corrects>>

\* join, lines 75-82: the checks.
r_join_75(t, c, name_in, team_in) ==
    /\ At(t, "idle")
    /\ IF join_error(name_in, team_in) # ""
       THEN Refused(t)
       ELSE /\ thr' = Moved(t, [pc |-> "join_83", c |-> c,
                                name |-> StripName(name_in),
                                team |-> NormTeam(team_in)], {})
            /\ UNCHANGED <<players, deck, cards, scores, passes, turn_index,
                           time_limit, started, session, next_id, corrects>>

\* join, lines 83-85
r_join_83(t) ==
    /\ At(t, "join_83")
    /\ players' = Append(players, [id |-> uuid4, name |-> thr[t].name,
                                   team |-> thr[t].team])
    /\ session' = [session EXCEPT ![thr[t].c] = uuid4]
    /\ next_id' = next_id + 1
    /\ thr' = Moved(t, Done, {})
    /\ UNCHANGED <<deck, cards, scores, passes, turn_index, time_limit,
                   started, corrects>>

\* start_game, lines 90-101: the checks.
r_start_90(t, time_in, raw) ==
    /\ At(t, "idle")
    /\ IF start_error(raw) # ""
       THEN Refused(t)
       ELSE /\ thr' = Moved(t, [pc |-> "start_102", cards |-> loaded[raw],
                                time_limit |-> TimeLimitArg(time_in)], {})
            /\ UNCHANGED <<players, deck, cards, scores, passes, turn_index,
                           time_limit, started, session, next_id, corrects>>

\* start_game, lines 102-105
r_start_102(t) ==
    /\ At(t, "start_102")
    /\ deck' \in Shuffles(words_of(thr[t].cards))
    /\ cards' = thr[t].cards
    /\ thr' = Moved(t, [thr[t] EXCEPT !.pc = "start_106"], {"deck"})
    /\ UNCHANGED <<players, scores, passes, turn_index, time_limit, started,
                   session, next_id, corrects>>

\* start_game, lines 106-108
r_start_106(t) ==
    /\ At(t, "start_106")
    /\ scores' = ZeroScores
    /\ passes' = 0
    /\ turn_index' = 0
    /\ corrects' = ZeroScores
    /\ thr' = Moved(t, [thr[t] EXCEPT !.pc = "start_109"], {"scores"})
    /\ UNCHANGED <<players, deck, cards, time_limit, started, session,
                   next_id>>

\* start_game, lines 109-110
r_start_109(t) ==
    /\ At(t, "start_109")
    /\ IF IsIntLiteral(thr[t].time_limit)
       THEN /\ time_limit' = IntOf(thr[t].time_limit)
            /\ started' = TRUE
       ELSE UNCHANGED <<time_limit, started>>
    /\ thr' = Moved(t, Done, {})
    /\ UNCHANGED <<players, deck, cards, scores, passes, turn_index, session,
                   next_id, corrects>>

\* action, lines 151-156: players and deck are fetched and found not empty.
r_action_151(t, c, action_type) ==
    /\ At(t, "idle")
    /\ IF players = <<>> \/ deck = <<>>
       THEN Refused(t)
       ELSE /\ thr' = Moved(t, [pc |-> "action_157", id |-> session[c],
                                action_type |-> action_type,
                                players |-> Here(<<>>),
                                deck |-> Here(<<>>)], {})
            /\ UNCHANGED <<players, deck, cards, scores, passes, turn_index,
                           time_limit, started, session, next_id, corrects>>

\* action, lines 157-163: the clue-giver check, team and scores.
r_action_157(t) ==
    /\ At(t, "action_157")
    /\ LET ps == Obj(thr[t].players, players)
           p == ps[(turn_index % Len(ps)) + 1]
       IN  thr' = Moved(t, IF thr[t].id # p.id THEN Done
                           ELSE [pc |-> "action_164",
                                 action_type |-> thr[t].action_type,
                                 deck |-> thr[t].deck,
                                 team |-> p.team,
                                 scores |-> Here(ZeroScores)], {})
    /\ UNCHANGED <<players, deck, cards, scores, passes, turn_index,
                   time_limit, started, session, next_id, corrects>>

\* The deck local of thread t after its list becomes d, and GAME["deck"]
\* then.
deck_local(t, d) == IF thr[t].deck.al THEN thr[t].deck ELSE Kept(d)
deck_global(t, d) == IF thr[t].deck.al THEN d ELSE deck

\* action, line 164: deck.pop(0); IndexError on a list that is empty by now.
r_action_164(t) ==
    /\ At(t, "action_164")
    /\ LET d == Obj(thr[t].deck, deck) IN
          IF d = <<>>
          THEN /\ thr' = Moved(t, Done, {})
               /\ UNCHANGED deck
          ELSE /\ deck' = deck_global(t, deck_pop(d))
               /\ thr' = Moved(t, [thr[t] EXCEPT
                                     !.pc = IF thr[t].action_type
                                               \in {"correct", "taboo", "pass"}
                                            THEN "action_165" ELSE "action_172",
                                     !.deck = deck_local(t, deck_pop(d))]
                                  @@ [current |-> Head(d)], {})
    /\ UNCHANGED <<players, cards, scores, passes, turn_index, time_limit,
                   started, session, next_id, corrects>>

\* action, lines 166, 168, 170: the right-hand side is evaluated.
r_action_165(t) ==
    /\ At(t, "action_165")
    /\ thr' = Moved(t, [thr[t] EXCEPT !.pc = "action_166"]
                       @@ [rhs |-> CASE thr[t].action_type = "correct" ->
                                      score_correct(Obj(thr[t].scores, scores)
                                                       [thr[t].team])
                                     [] thr[t].action_type = "taboo" ->
                                      score_taboo(Obj(thr[t].scores, scores)
                                                     [thr[t].team])
                                     [] thr[t].action_type = "pass" ->
                                      passes + 1], {})
    /\ UNCHANGED <<players, deck, cards, scores, passes, turn_index,
                   time_limit, started, session, next_id, corrects>>

\* action, lines 166, 168, 170-171: the value is stored; a passed word is
\* appended to the list again.
r_action_166(t) ==
    /\ At(t, "action_166")
    /\ LET T == thr[t]
           sc == [Obj(T.scores, scores) EXCEPT ![T.team] = T.rhs]
           d == Append(Obj(T.deck, deck), T.current)
           rec == [pc |-> "action_172", deck |-> T.deck, scores |-> T.scores]
       IN  IF T.action_type = "pass"
           THEN /\ passes' = T.rhs
                /\ deck' = deck_global(t, d)
                /\ thr' = Moved(t, [rec EXCEPT !.deck = deck_local(t, d)], {})
                /\ UNCHANGED <<scores, corrects>>
           ELSE /\ scores' = IF T.scores.al THEN sc ELSE scores
                /\ thr' = Moved(t, [rec EXCEPT
                                      !.scores = IF T.scores.al THEN T.scores
                                                 ELSE Kept(sc)], {})
                /\ corrects' = IF T.action_type = "correct"
                               THEN [corrects EXCEPT ![T.team] = @ + 1]
                               ELSE corrects
                /\ UNCHANGED <<deck, passes>>
    /\ UNCHANGED <<players, cards, turn_index, time_limit, started, session,
                   next_id>>

\* action, lines 172-173: GAME["scores"] = scores, GAME["deck"] = deck.
r_action_172(t) ==
    /\ At(t, "action_172")
    /\ scores' = Obj(thr[t].scores, scores)
    /\ deck' = Obj(thr[t].deck, deck)
    /\ thr' = Moved(t, Done, {f \in {"scores", "deck"} : ~thr[t][f].al})
    /\ UNCHANGED <<players, cards, passes, turn_index, time_limit, started,
                   session, next_id, corrects>>

\* next_turn, lines 180-186: the checks.
r_turn_180(t, c) ==
    /\ At(t, "idle")
    /\ IF ~next_turn_accepted(c)
       THEN Refused(t)
       ELSE /\ thr' = Moved(t, [pc |-> "turn_187", players |-> Here(<<>>)], {})
            /\ UNCHANGED <<players, deck, cards, scores, passes, turn_index,
                           time_limit, started, session, next_id, corrects>>

\* next_turn, line 187: the right-hand side is evaluated.
r_turn_187(t) ==
    /\ At(t, "turn_187")
    /\ thr' = Moved(t, [pc |-> "turn_188",
                        rhs |-> next_index(turn_index,
                                           Len(Obj(thr[t].players, players)))],
                    {})
    /\ UNCHANGED <<players, deck, cards, scores, passes, turn_index,
                   time_limit, started, session, next_id, corrects>>

\* next_turn, line 187: the value is stored.
r_turn_188(t) ==
    /\ At(t, "turn_188")
    /\ turn_index' = thr[t].rhs
    /\ thr' = Moved(t, Done, {})
    /\ UNCHANGED <<players, deck, cards, scores, passes, time_limit, started,
                   session, next_id, corrects>>

\* reset, lines 192-194
r_reset_192(t, c) ==
    /\ At(t, "idle")
    /\ players' = <<>>
    /\ deck' = <<>>
    /\ cards' = <<>>
    /\ thr' = Moved(t, [pc |-> "reset_195", c |-> c], {"players", "deck"})
    /\ UNCHANGED <<scores, passes, turn_index, time_limit, started, session,
                   next_id, corrects>>

\* reset, lines 195-197
r_reset_195(t) ==
    /\ At(t, "reset_195")
    /\ scores' = ZeroScores
    /\ passes' = 0
    /\ turn_index' = 0
    /\ corrects' = ZeroScores
    /\ thr' = Moved(t, [thr[t] EXCEPT !.pc = "reset_198"], {"scores"})
    /\ UNCHANGED <<players, deck, cards, time_limit, started, session,
                   next_id>>

\* reset, lines 198-200
r_reset_198(t) ==
    /\ At(t, "reset_198")
    /\ time_limit' = DEFAULT_TIME_LIMIT
    /\ started' = FALSE
    /\ session' = [session EXCEPT ![thr[t].c] = None]
    /\ thr' = Moved(t, Done, {})
    /\ UNCHANGED <<players, deck, cards, scores, passes, turn_index, next_id,
                   corrects>>

RaceJoin ==
    \E t \in Threads :
        \/ \E c \in Callers, n \in NameInputs, tm \in TeamInputs :
              r_join_75(t, c, n, tm)
        \/ r_join_83(t)
RaceStart ==
    \E t \in Threads :
        \/ \E tl \in TimeLimitInputs, raw \in Catalogs : r_start_90(t, tl, raw)
        \/ r_start_102(t)
        \/ r_start_106(t)
        \/ r_start_109(t)
RaceAction ==
    \E t \in Threads :
        \/ \E c \in Callers, a \in ActionInputs : r_action_151(t, c, a)
        \/ r_action_157(t)
        \/ r_action_164(t)
        \/ r_action_165(t)
        \/ r_action_166(t)
        \/ r_action_172(t)
RaceTurn ==
    \E t \in Threads :
        \/ \E c \in Callers : r_turn_180(t, c)
        \/ r_turn_187(t)
        \/ r_turn_188(t)
RaceReset ==
    \E t \in Threads :
        \/ \E c \in Callers : r_reset_192(t, c)
        \/ r_reset_195(t)
        \/ r_reset_198(t)

RaceNext == RaceJoin \/ RaceStart \/ RaceAction \/ RaceTurn \/ RaceReset

\* The states the two requests start in: the lobby after two registrations,
\* one per team and caller, or the round a /start has just made of it.
RaceInit ==
    /\ players = <<[id |-> 1, name |-> "ann", team |-> "red"],
                   [id |-> 2, name |-> "ann", team |-> "blue"]>>
    /\ session = [c \in Callers |-> IF c = "c1" THEN 1 ELSE 2]
    /\ next_id = 2
    /\ scores = ZeroScores
    /\ passes = 0
    /\ turn_index = 0
    /\ time_limit = DEFAULT_TIME_LIMIT
    /\ corrects = ZeroScores
    /\ thr = [t \in Threads |-> Idle]
    /\ \/ /\ started = FALSE
          /\ deck = <<>>
          /\ cards = <<>>
       \/ \E raw \in Catalogs :
             /\ loaded[raw] # <<>>
             /\ started = TRUE
             /\ deck \in shuffled[raw]
             /\ cards = loaded[raw]

RaceSpec == RaceInit /\ [][RaceNext]_vars

\* ------------------------------------------------------------------ claims
\* The requests, as the claims speak of them.  A claim about what a request
\* does is stated on the state the request runs in: no step the request can
\* take from it (ENABLED) breaks what is claimed.
Giver == players[(turn_index % Len(players)) + 1]
IsGiver(c) == players # <<>> /\ session[c] = Giver.id
Registered(c, i) == session[c] # None /\ players[i].id = session[c]
RoundRunning == started /\ players # <<>> /\ deck # <<>>
GiverActs(c, kind) ==
    players # <<>> /\ deck # <<>> /\ IsGiver(c) /\ action(c, kind)
Other(t) == CHOOSE u \in Teams : u # t

\* C1: while a round is in progress with a non-empty deck, viewState lets a
\* requester see the word exactly when the requester is the clue-giver or a
\* registered player whose team is not the clue-giver's; a teammate of the
\* clue-giver and a requester without a player record never see it.
C1_CanSeeWord ==
    RoundRunning =>
        \A c \in Callers :
            can_view(c) <=>
                \E i \in 1..Len(players) :
                    /\ Registered(c, i)
                    /\ \/ players[i].id = Giver.id
                       \/ players[i].team # Giver.team

\* A round in which one caller is a teammate of the clue-giver, not the
\* clue-giver, and is refused the word, and another caller has no record.
C1_Witness ==
    /\ RoundRunning
    /\ \E c \in Callers :
          /\ \E i \in 1..Len(players) :
                Registered(c, i) /\ players[i].team = Giver.team
          /\ ~IsGiver(c)
          /\ ~can_view(c)
    /\ \E c \in Callers :
          /\ \A i \in 1..Len(players) : ~Registered(c, i)
          /\ ~can_view(c)

\* C2: a recordAction of any kind or an advanceTurn by a requester whose id
\* is not the active clue-giver's changes neither the scores, the pass
\* counter, the deck, turnIndex, the roster nor the started flag.
C2_NonGiverNoOp ==
    \A c \in Callers :
        ~IsGiver(c) =>
            ~ENABLED (/\ \/ \E kind \in ActionInputs : action(c, kind)
                         \/ next_turn(c)
                      /\ <<scores, passes, deck, turn_index, players, started>>'
                            # <<scores, passes, deck, turn_index, players, started>>)

\* A round in which a registered caller is not the clue-giver.
C2_Witness ==
    /\ RoundRunning
    /\ \E c \in Callers : HasUser(c) /\ ~IsGiver(c)

\* C3: both scores are integers >= 0 in every reachable state, and a Taboo
\* recorded for a team whose score is 0 leaves that score at 0.
C3_ScoreFloor ==
    /\ \A t \in Teams : scores[t] \in Nat
    /\ \A c \in Callers :
          ~ENABLED (/\ GiverActs(c, "taboo")
                    /\ scores[Giver.team] = 0
                    /\ scores'[Giver.team] # 0)

\* A team that scored since the scores were zeroed stands at 0 again: the
\* penalty was applied down to the floor.
C3_Witness ==
    /\ started
    /\ \E t \in Teams : corrects[t] > 0 /\ scores[t] = 0

\* C4: an accepted Correct raises the score of the clue-giver's team by
\* exactly 1 and leaves the other score and the pass counter alone; a score
\* never exceeds the number of accepted Correct actions of that team since
\* the scores were last zeroed, which is at most the number since the last
\* reset.
C4_CorrectAddsOne ==
    /\ \A c \in Callers :
          ~ENABLED (/\ GiverActs(c, "correct")
                    /\ ~(/\ scores'[Giver.team] = scores[Giver.team] + 1
                         /\ scores'[Other(Giver.team)] = scores[Other(Giver.team)]
                         /\ passes' = passes))
    /\ \A t \in Teams : scores[t] <= corrects[t]

\* Both teams have scored in the running round.
C4_Witness ==
    /\ started
    /\ \A t \in Teams : scores[t] > 0 /\ scores[t] = corrects[t]

\* C5: an accepted Pass moves the front word of the deck to the back, the
\* other words keeping their order, leaves the deck length and both scores
\* unchanged and adds exactly 1 to the pass counter; with a single word in
\* the deck too, so the deck is not empty afterwards.
C5_PassRecycles ==
    \A c \in Callers :
        ~ENABLED (/\ GiverActs(c, "pass")
                  /\ ~(/\ Len(deck') = Len(deck)
                       /\ deck'[Len(deck)] = deck[1]
                       /\ \A i \in 1..(Len(deck) - 1) : deck'[i] = deck[i + 1]
                       /\ deck' # <<>>
                       /\ scores' = scores
                       /\ passes' = passes + 1))

\* A Pass was recorded in a round over a single card.
C5_Witness ==
    /\ started
    /\ passes > 0
    /\ Len(cards) = 1
    /\ Len(deck) = 1

\* C6: while started is true a register is rejected and changes nothing, and
\* no request but a reset changes the roster.
C6_RosterFrozen ==
    started =>
        /\ \A c \in Callers, n \in NameInputs, t \in TeamInputs :
              ~ENABLED (/\ join(c, n, t)
                        /\ <<players, session, next_id>>'
                              # <<players, session, next_id>>)
        /\ ~ENABLED (/\ Index \/ Join \/ StartGame \/ Game \/ Action \/ NextTurn
                     /\ players' # players)

\* A started round in which a well-formed register is turned away while
\* ids are still to be had.
C6_Witness ==
    /\ started
    /\ next_id < MaxIds
    /\ join_error("ann", "red") = "Round already started. End round to join."

\* C7: when an accepted recordAction removes the last word of the deck the
\* round is over: started is false afterwards and both scores keep the
\* values the action left.
C7_ExhaustedDeckEndsRound ==
    [][\A c \in Callers, kind \in ActionInputs :
          (GiverActs(c, kind) /\ started /\ deck' = <<>>) => ~started']_vars

\* C8: a startRound issued while a round is in progress (started true, deck
\* not empty) is rejected: deck, scores, pass counter, turnIndex and time
\* limit stay as they are.
C8_StartOnlyFromIdle ==
    [][\A tl \in TimeLimitInputs, raw \in Catalogs :
          (started /\ deck # <<>> /\ start_game(tl, raw))
          => UNCHANGED <<deck, scores, passes, turn_index, time_limit>>]_vars

\* The well-formed entries of a cards.json, counted on the file itself.
ValidEntries(raw) ==
    {i \in 1..Len(raw) :
        /\ raw[i].word # 0
        /\ \E j \in 1..Len(raw[i].taboo) : raw[i].taboo[j] # 0}

\* The first precondition of startRound that fails, in the order the spec
\* gives them.
StartRejection(raw) ==
    IF Len(players) < 2 THEN "Add at least two players to start."
    ELSE IF \E t \in Teams : \A i \in 1..Len(players) : players[i].team # t
    THEN "Add at least one player to each team."
    ELSE IF ValidEntries(raw) = {} THEN "No cards available in cards.json."
    ELSE ""

\* C9: a startRound issued while no round is started succeeds (started
\* becomes true) exactly when the roster has two players or more, both teams
\* have a player and the validated catalog is not empty; otherwise it is
\* rejected with the reason of the first failed precondition and the session
\* state is unchanged.
C9_StartIffPreconditions ==
    [][\A tl \in TimeLimitInputs, raw \in Catalogs :
          (~started /\ start_game(tl, raw)) =>
             /\ start_error(raw) = StartRejection(raw)
             /\ started' <=> (can_start /\ ValidEntries(raw) # {})
             /\ ~started' => UNCHANGED game_vars]_vars

\* C10: right after a successful startRound over N valid cards the deck
\* holds the N catalog words, each once; in every reachable state the deck
\* holds no word twice and each of its words is the word of exactly one card
\* of the catalog snapshot.
C10_DeckIsPermutation ==
    /\ \A tl \in TimeLimitInputs, raw \in Catalogs :
          ~ENABLED (/\ start_game(tl, raw)
                    /\ start_error(raw) = ""
                    /\ started'
                    /\ ~(/\ Len(deck') = Cardinality(ValidEntries(raw))
                         /\ {deck'[i] : i \in 1..Len(deck')}
                               = {raw[i].word : i \in ValidEntries(raw)}))
    /\ \A i, j \in 1..Len(deck) : deck[i] = deck[j] => i = j
    /\ \A i \in 1..Len(deck) : Cardinality(card_data(deck[i])) = 1

\* A round over the largest catalog in which a word was passed and another
\* discarded: what is left of the deck is not in catalog order.
C10_Witness ==
    /\ started
    /\ Len(cards) = MaxCards
    /\ passes > 0
    /\ deck # <<>>
    /\ Len(deck) < Len(cards)

\* C11: an operation that fails leaves the session state untouched; in
\* particular a startRound that passes the roster and catalog checks but
\* carries a time limit that is not an integer leaves deck, catalog snapshot,
\* scores, pass counter, turnIndex, time limit and started as they were.
C11_FailedStartLeavesState ==
    [][\A tl \in TimeLimitInputs, raw \in Catalogs :
          (/\ start_error(raw) = ""
           /\ ~IsIntLiteral(TimeLimitArg(tl))
           /\ start_game(tl, raw))
          => UNCHANGED <<deck, cards, scores, passes, turn_index, time_limit,
                         started>>]_vars

\* C12: recordAction is accepted only in a round in progress with a deck
\* that is not empty: where started is false or the deck is empty, a
\* recordAction by any requester changes no score, no pass counter and no
\* deck.
C12_ActionOnlyInProgress ==
    [][\A c \in Callers, kind \in ActionInputs :
          ((~started \/ deck = <<>>) /\ action(c, kind))
          => UNCHANGED <<scores, passes, deck>>]_vars

\* The ids handed out before the latest reset: the roster holds the ids
\* handed out since, the newest Len(players) of the next_id issued so far.
StaleIds == 1..(next_id - Len(players))

\* C13: reset yields an empty roster, both scores 0, pass counter 0, an empty
\* deck, turnIndex 0 and no round started, and makes every id handed out so
\* far stale; no other operation changes which ids are stale; and a
\* recordAction or advanceTurn carrying a stale id is never accepted, as no
\* roster entry has a stale id.
C13_ResetInvalidatesIds ==
    /\ \A c \in Callers :
          ~ENABLED (/\ reset(c)
                    /\ ~(/\ players' = <<>>
                         /\ scores' = ZeroScores
                         /\ passes' = 0
                         /\ deck' = <<>>
                         /\ turn_index' = 0
                         /\ ~started'
                         /\ StaleIds' = 1..next_id))
    /\ ~ENABLED (/\ Index \/ Join \/ StartGame \/ Game \/ Action \/ NextTurn
                 /\ StaleIds' # StaleIds)
    /\ \A i \in 1..Len(players) : players[i].id \notin StaleIds
    /\ \A c \in Callers :
          session[c] \in StaleIds =>
             ~action_accepted(c) /\ ~next_turn_accepted(c)

\* A new round is running after a reset, and a caller still carries the id
\* it was given before the reset.
C13_Witness ==
    /\ RoundRunning
    /\ \E c \in Callers : session[c] \in StaleIds

\* A startRound that passes every check and starts the round.
StartSucceeds(tl, raw) ==
    /\ start_error(raw) = ""
    /\ IsIntLiteral(TimeLimitArg(tl))
    /\ start_game(tl, raw)

\* An advanceTurn that gets past the clue-giver check.
AdvanceAccepted(c) == next_turn_accepted(c) /\ next_turn(c)

\* C14: after a successful startRound the clue-giver is the first registered
\* player (turnIndex 0); an accepted advanceTurn sets turnIndex to
\* (turnIndex + 1) mod the roster length; so after k accepted advances the
\* clue-giver is roster[k mod n], which no request other than an accepted
\* advanceTurn or a successful startRound changes while the round goes on;
\* and turnIndex stays within a roster that is not empty.
C14_TurnRotation ==
    [][/\ \A tl \in TimeLimitInputs, raw \in Catalogs :
             StartSucceeds(tl, raw) => (turn_index' = 0 /\ Giver' = players[1])
       /\ \A c \in Callers :
             AdvanceAccepted(c)
             => turn_index' = (turn_index + 1) % Len(players)
       /\ players' # <<>> => turn_index' \in 0..(Len(players') - 1)
       /\ \A c \in Callers, n \in NameInputs, tm \in TeamInputs,
             kind \in ActionInputs :
             (started /\ (join(c, n, tm) \/ action(c, kind)))
             => turn_index' = turn_index
       /\ \A tl \in TimeLimitInputs, raw \in Catalogs :
             (started /\ start_game(tl, raw)
                      /\ ~IsIntLiteral(TimeLimitArg(tl)))
             => turn_index' = turn_index]_vars

\* Thread t is in the middle of the action handler, past its checks.
InAction(t) ==
    thr[t].pc \in {"action_164", "action_165", "action_166", "action_172"}

\* Every thread is between requests or has answered its request.
Quiet == \A t \in Threads : thr[t].pc \in {"idle", "done"}

\* C15: two recordAction requests of the clue-giver that run side by side
\* behave as if one ran after the other: neither removes a word from a deck
\* that the other has emptied, and neither stores a score or a pass counter
\* computed from a value the other has replaced since.
C15_ActionsSerialize ==
    \A t, u \in Threads :
        (t # u /\ InAction(t) /\ InAction(u)) =>
           /\ At(t, "action_164") => Obj(thr[t].deck, deck) # <<>>
           /\ (At(t, "action_166") /\ thr[t].action_type = "correct") =>
                 thr[t].rhs = Obj(thr[t].scores, scores)[thr[t].team] + 1
           /\ (At(t, "action_166") /\ thr[t].action_type = "pass") =>
                 thr[t].rhs = passes + 1

\* C16: requests that run side by side leave the state some serial order of
\* them leaves.  In every serial order the roster of a started round does
\* not grow, and once the requests are answered an empty roster (the reset
\* came last) goes with an empty deck and scores of 0.
C16_RequestsSerialize ==
    [][/\ (started /\ started') => Len(players') <= Len(players)
       /\ (Quiet' /\ players' = <<>>) =>
             (deck' = <<>> /\ scores' = ZeroScores)]_vars

\* C17: advanceTurn is accepted only while a round is in progress: when
\* started is false, an advanceTurn by the player at roster[turnIndex] is
\* rejected and leaves turnIndex unchanged.
C17_AdvanceOnlyInProgress ==
    [][\A c \in Callers :
          (~started /\ IsGiver(c) /\ next_turn(c))
          => (~next_turn_accepted(c) /\ turn_index' = turn_index)]_vars

\* C18: a recordAction by the clue-giver whose kind is none of correct,
\* taboo and pass is rejected without effect: the deck, its front word
\* included, both scores and the pass counter are afterwards what they were.
C18_UnknownKindNoEffect ==
    [][\A c \in Callers, kind \in ActionInputs \ {"correct", "taboo", "pass"} :
          GiverActs(c, kind) => UNCHANGED <<deck, scores, passes>>]_vars

\* C19: during a round the deck never gets longer; an accepted correct or
\* taboo shortens it by exactly one and nothing else shortens it, so a round
\* over N cards ends after exactly N accepted correct or taboo actions.
C19_DeckShrinksToEnd ==
    [][/\ (started /\ deck # <<>> /\ started') => Len(deck') <= Len(deck)
       /\ \A c \in Callers, kind \in ActionInputs :
             (started /\ GiverActs(c, kind)) =>
                Len(deck') = IF kind \in {"correct", "taboo"}
                             THEN Len(deck) - 1 ELSE Len(deck)]_vars

\* C20: whenever a round is in progress with a deck that is not empty, the
\* id of the clue-giver roster[turnIndex] is the id some caller is bound to,
\* so that caller's recordAction and advanceTurn are accepted.
C20_GiverHasCaller ==
    RoundRunning =>
       \E c \in Callers : action_accepted(c) /\ next_turn_accepted(c)

====
